---- MODULE Spec2Model ----
(***************************************************************************)
(* Model of the group authority and moderation code of TelegramGuardian.   *)
(*                                                                         *)
(* One group record of the JSON store (bot/storage/data.py) is modelled,   *)
(* together with the moderation commands of                                *)
(* bot/handlers/command_handlers.py and the synchronous handlers of        *)
(* bot/handlers/message_handlers_new.py and command_handlers_new.py.       *)
(*                                                                         *)
(* The store itself (load_data, save_data, get_group_data), the helpers    *)
(* of bot/utils/database.py on the table `members`, and the content        *)
(* screen with the toggles of /settings, the welcome of new members and    *)
(* /rules are followed in specifications of their own.                     *)
(*                                                                         *)
(* Scheduling.  The commands of command_handlers.py are coroutines: a      *)
(* coroutine runs without interruption until it awaits a call of the bot   *)
(* API (reply_text, ban_chat_member, restrict_chat_member), which performs *)
(* network I/O and lets any other coroutine run.  check_permission and     *)
(* update_user_permission (bot/utils/permissions.py) contain no            *)
(* suspension, so an `await` applied to them is modelled as the plain call *)
(* and its return value.  One action of the model is therefore the code    *)
(* between two bot API calls.  A handler whose remaining code after a bot  *)
(* API call touches no state (the closing replies, the platform call of    *)
(* ban, mute and unmute) is one action with the outcome of the call as an  *)
(* input; warn_command, which writes the store after its bot API calls, is *)
(* one action per segment.                                                 *)
(* The handlers of the *_new modules are plain functions that webhook.py   *)
(* registers with the dispatcher; the dispatcher is driven both by the     *)
(* polling thread (main.py:55) and by the Flask request threads            *)
(* (webhook.py:97), so these handlers run in preemptive threads and a read *)
(* and the later write of a dict entry are separate steps.                 *)
(***************************************************************************)
EXTENDS Integers, FiniteSets, Sequences, TLC

\* ---------------------------------------------------------------- bounds
NumUsers == 2
MaxTasks == 2
\* commands sent to the coroutine handlers
MaxCmds == 2
\* commands of the end-to-end scenario
MaxSuccessive == 3
\* updates handed to the dispatcher threads
MaxUpdates == 4
NumThreads == 2
\* groups held by the store
NumChats == 2
\* distinct contents a handler writes into a group record
MaxContent == 2
\* calls made to the store
MaxCalls == 3
\* words of a text message
MaxWords == 1
\* updates of the content screen's scenario
MaxMessages == 1
\* updates handled for a group by all its handlers together
MaxHandled == 2
\* /settings commands and text messages of a group that starts without toggles
MaxSettings == 3
\* members other than the bot that one join update announces
MaxJoined == 2
\* /rules commands of one run
MaxRules == 3

Users == 1..NumUsers
Tasks == 1..MaxTasks
Threads == 1..NumThreads
Chats == 1..NumChats
\* an update that replies to no message: reply_to_message is None
NoTarget == 0

\* ------------------------------------------------------------- constants
PERMISSION_LEVELS ==
    [banned |-> -100, restricted |-> -10, regular |-> 0, trusted |-> 10,
     moderator |-> 50, admin |-> 100, owner |-> 1000]

Ranks == {PERMISSION_LEVELS[n] : n \in DOMAIN PERMISSION_LEVELS}

\* the count tested by warn_command before the automatic restriction
WARN_LIMIT == 3

\* the toggles of DEFAULT_CONFIG (bot/config.py)
DEFAULT_CONFIG ==
    [moderation_enabled |-> TRUE, auto_delete |-> FALSE, welcome_enabled |-> TRUE]

VARIABLES
    group_data,      \* the record _data['groups'][chat_id] of one group
    task,            \* the coroutines of command_handlers.py in flight
    thread,          \* the dispatcher threads running *_new handlers
    started,         \* number of updates dispatched so far
    budget,          \* number of updates the run delivers
    last,            \* history: the command that replied last, and its reply
    warns_expected,  \* history: per member, the count at start plus the warns
                     \* that replied "has been warned"
    msgs_handled,    \* history: per counter, handler runs that counted themselves
    data,            \* the dictionary _data of bot/storage/data.py
    file,            \* the content of data/bot_data.json
    outcome,         \* history: the last call of the store and what it returned
    screened,        \* history: the last text message and what was done with it
    members,         \* the rows of the table `members` (models.py)
    loader,          \* the dispatcher threads inside a handler's store calls
    welcomed,        \* history: the last join and the welcomes sent for it
    viewed           \* history: the last view of the rules and its text

handlerVars ==
    <<group_data, task, thread, last, warns_expected, msgs_handled, screened,
      welcomed, viewed>>

storeVars == <<data, file, outcome, members, loader>>

vars == <<group_data, task, thread, started, budget, last, warns_expected,
         msgs_handled, data, file, outcome, screened, members,
         loader, welcomed, viewed>>

\* ------------------------------------------------------------ dict helpers
\* d.get(k, default)
get(d, k, default) == IF k \in DOMAIN d THEN d[k] ELSE default

\* d[k] = v
put(d, k, v) == [x \in (DOMAIN d) \cup {k} |-> IF x = k THEN v ELSE d[x]]

EmptyDict == [x \in {} |-> 0]

\* get_group_data creates the record as {} when the group is unknown; every
\* reader goes through .get(key, default), so a missing key is the default.
EmptyGroup ==
    [permissions |-> EmptyDict, user_warnings |-> EmptyDict,
     warnings_issued |-> 0, message_count |-> 0, command_count |-> 0,
     member_count |-> 0, rules |-> 0, settings |-> EmptyDict]

\* ---------------------------------------------------------- permissions.py
\* mutant: a member without a record counts as banned
check_permission_in_banned(gd, user_id) ==
    get(gd.permissions, user_id, PERMISSION_LEVELS.banned)

check_permission_in(gd, user_id) ==
    get(gd.permissions, user_id, PERMISSION_LEVELS.regular)

check_permission(user_id) == check_permission_in(group_data, user_id)

set_permission(gd, user_id, permission_level) ==
    [gd EXCEPT !.permissions = put(@, user_id, permission_level)]

update_user_permission(gd, user_id, new_permission) ==
    set_permission(gd, user_id, new_permission)


\* ------------------------------------------------- command_handlers.py
Commands == {"promote", "demote", "ban", "mute", "unmute", "warn"}

IdleTask == [pc |-> "idle", user |-> NoTarget, target |-> NoTarget, warning_count |-> 0]

NoCommand == [cmd |-> "none", user |-> NoTarget, target |-> NoTarget, result |-> "none"]

\* mutant: promote tests the actor against the wrong tier
MinimumRank_trusted(cmd) ==
    IF cmd = "promote" THEN PERMISSION_LEVELS.trusted
    ELSE IF cmd \in {"demote", "ban"} THEN PERMISSION_LEVELS.admin
    ELSE PERMISSION_LEVELS.moderator

\* mutant: mute and warn are open to every member who is not restricted
MinimumRank_regular(cmd) ==
    IF cmd \in {"promote", "demote", "ban"}
    THEN PERMISSION_LEVELS.admin
    ELSE PERMISSION_LEVELS.regular

\* the rank below which the command answers "You don't have permission"
MinimumRank(cmd) ==
    IF cmd \in {"promote", "demote", "ban"}
    THEN PERMISSION_LEVELS.admin
    ELSE PERMISSION_LEVELS.moderator

\* `if user_permission < PERMISSION_LEVELS[...]`
InsufficientRank(user_permission, minimum) == user_permission < minimum

\* mutant: the comparison with the target lets an equal rank through
TargetNotBelow_strict(target_permission, user_permission) ==
    target_permission > user_permission

\* `if target_permission >= user_permission`
TargetNotBelow(target_permission, user_permission) ==
    target_permission >= user_permission

\* the commands that compare the target's rank with the actor's
ChecksTarget(cmd) == cmd # "unmute"

\* mutant: promote stops at moderator
NewLevel_flat(cmd, target_permission) ==
    CASE cmd = "promote" -> PERMISSION_LEVELS.moderator
      [] cmd = "demote" ->
           IF target_permission >= PERMISSION_LEVELS.moderator
           THEN PERMISSION_LEVELS.regular ELSE PERMISSION_LEVELS.restricted
      [] cmd = "ban" -> PERMISSION_LEVELS.banned
      [] cmd = "mute" -> PERMISSION_LEVELS.restricted
      [] cmd = "unmute" -> PERMISSION_LEVELS.regular

\* mutant: demote takes a moderator straight to restricted
NewLevel_above(cmd, target_permission) ==
    CASE cmd = "promote" ->
           IF target_permission < PERMISSION_LEVELS.moderator
           THEN PERMISSION_LEVELS.moderator ELSE PERMISSION_LEVELS.admin
      [] cmd = "demote" ->
           IF target_permission > PERMISSION_LEVELS.moderator
           THEN PERMISSION_LEVELS.regular ELSE PERMISSION_LEVELS.restricted
      [] cmd = "ban" -> PERMISSION_LEVELS.banned
      [] cmd = "mute" -> PERMISSION_LEVELS.restricted
      [] cmd = "unmute" -> PERMISSION_LEVELS.regular

\* mutant: unmute lifts a restriction and leaves any other rank as it is
NewLevel_restore(cmd, target_permission) ==
    CASE cmd = "promote" ->
           IF target_permission < PERMISSION_LEVELS.moderator
           THEN PERMISSION_LEVELS.moderator ELSE PERMISSION_LEVELS.admin
      [] cmd = "demote" ->
           IF target_permission >= PERMISSION_LEVELS.moderator
           THEN PERMISSION_LEVELS.regular ELSE PERMISSION_LEVELS.restricted
      [] cmd = "ban" -> PERMISSION_LEVELS.banned
      [] cmd = "mute" -> PERMISSION_LEVELS.restricted
      [] cmd = "unmute" ->
           IF target_permission = PERMISSION_LEVELS.restricted
           THEN PERMISSION_LEVELS.regular ELSE target_permission

\* mutant: promote climbs every tier of the table, up to owner
NewLevel_ladder(cmd, target_permission) ==
    CASE cmd = "promote" ->
           IF target_permission < PERMISSION_LEVELS.trusted
           THEN PERMISSION_LEVELS.trusted
           ELSE IF target_permission < PERMISSION_LEVELS.moderator
           THEN PERMISSION_LEVELS.moderator
           ELSE IF target_permission < PERMISSION_LEVELS.admin
           THEN PERMISSION_LEVELS.admin ELSE PERMISSION_LEVELS.owner
      [] cmd = "demote" ->
           IF target_permission >= PERMISSION_LEVELS.moderator
           THEN PERMISSION_LEVELS.regular ELSE PERMISSION_LEVELS.restricted
      [] cmd = "ban" -> PERMISSION_LEVELS.banned
      [] cmd = "mute" -> PERMISSION_LEVELS.restricted
      [] cmd = "unmute" -> PERMISSION_LEVELS.regular

\* the level the command writes for a target of rank target_permission
NewLevel(cmd, target_permission) ==
    CASE cmd = "promote" ->
           IF target_permission < PERMISSION_LEVELS.moderator
           THEN PERMISSION_LEVELS.moderator ELSE PERMISSION_LEVELS.admin
      [] cmd = "demote" ->
           IF target_permission >= PERMISSION_LEVELS.moderator
           THEN PERMISSION_LEVELS.regular ELSE PERMISSION_LEVELS.restricted
      [] cmd = "ban" -> PERMISSION_LEVELS.banned
      [] cmd = "mute" -> PERMISSION_LEVELS.restricted
      [] cmd = "unmute" -> PERMISSION_LEVELS.regular

\* the reply with which the handler leaves, or "accepted"
Decision(cmd, user, target) ==
    IF InsufficientRank(check_permission(user), MinimumRank(cmd))
    THEN "insufficientRank"
    ELSE IF target = NoTarget
    THEN "noTarget"
    ELSE IF ChecksTarget(cmd)
            /\ TargetNotBelow(check_permission(target), check_permission(user))
    THEN "cannotActOnEqualOrHigher"
    ELSE "accepted"

\* an update arrives
Dispatch ==
    /\ started < budget
    /\ started' = started + 1
    /\ budget' = budget

\* the store was written: the reply is the success text, or the text
\* "Failed to ..." when the platform call raised after the write
Mutates(result) == result \in {"accepted", "platformFailed"}

\* what the handler answered: a success text names the target and follows
\* the actor's write, a refusal names the command and the reason only
Reply(cmd, user, target, result) ==
    IF Mutates(result)
    THEN [cmd |-> cmd, user |-> user, target |-> target, result |-> result]
    ELSE [NoCommand EXCEPT !.cmd = cmd, !.result = result]

\* mutant: the handler writes the rank before it looks at its checks
RankCommand_writes(cmd, user, target, ok) ==
    /\ Dispatch
    /\ ok \/ Decision(cmd, user, target) = "accepted"
    /\ LET d == Decision(cmd, user, target) IN
       /\ last' = Reply(cmd, user, target,
                        IF d = "accepted" /\ ~ok THEN "platformFailed" ELSE d)
       /\ group_data' =
              IF target # NoTarget
              THEN update_user_permission(group_data, target,
                       NewLevel(cmd, check_permission(target)))
              ELSE group_data
    /\ UNCHANGED <<task, thread, warns_expected, msgs_handled>>
    /\ UNCHANGED <<storeVars, screened, welcomed, viewed>>

\* mutant: the rank is stored once the platform call has returned
RankCommand_after(cmd, user, target, ok) ==
    /\ Dispatch
    /\ ok \/ Decision(cmd, user, target) = "accepted"
    /\ LET d == Decision(cmd, user, target) IN
       /\ last' = Reply(cmd, user, target,
                        IF d = "accepted" /\ ~ok THEN "platformFailed" ELSE d)
       /\ group_data' =
              IF d = "accepted" /\ ok
              THEN update_user_permission(group_data, target,
                       NewLevel(cmd, check_permission(target)))
              ELSE group_data
    /\ UNCHANGED <<task, thread, warns_expected, msgs_handled>>
    /\ UNCHANGED <<storeVars, screened, welcomed, viewed>>

\* promote, demote, ban, mute, unmute; ok: the platform call made after the
\* store was updated returns (TRUE) or raises (FALSE); a handler that
\* refuses makes no platform call
RankCommand(cmd, user, target, ok) ==
    /\ Dispatch
    /\ ok \/ Decision(cmd, user, target) = "accepted"
    /\ LET d == Decision(cmd, user, target) IN
       /\ last' = Reply(cmd, user, target,
                        IF d = "accepted" /\ ~ok THEN "platformFailed" ELSE d)
       /\ group_data' =
              IF d = "accepted"
              THEN update_user_permission(group_data, target,
                       NewLevel(cmd, check_permission(target)))
              ELSE group_data
    /\ UNCHANGED <<task, thread, warns_expected, msgs_handled>>
    /\ UNCHANGED <<storeVars, screened, welcomed, viewed>>

promote_command(user, target) == RankCommand("promote", user, target, TRUE)

demote_command(user, target) == RankCommand("demote", user, target, TRUE)

ban_command(user, target, ok) == RankCommand("ban", user, target, ok)

mute_command(user, target, ok) == RankCommand("mute", user, target, ok)

unmute_command(user, target, ok) == RankCommand("unmute", user, target, ok)

\* mutant: the count is restarted instead of read from the record
record_warning_restart(gd, target) ==
    [gd EXCEPT !.user_warnings = put(@, target, 1),
               !.warnings_issued = @ + 1]

\* user_warnings[id] = user_warnings.get(id, 0) + 1; warnings_issued += 1
record_warning(gd, target) ==
    [gd EXCEPT !.user_warnings = put(@, target, get(@, target, 0) + 1),
               !.warnings_issued = @ + 1]

\* mutant: the limit is tested one warning early
ReachedLimit_early(warning_count) == warning_count >= WARN_LIMIT - 1

\* `if warning_count >= 3`
ReachedLimit(warning_count) == warning_count >= WARN_LIMIT

\* warn_command from its start to the reply "has been warned"; the
\* coroutine takes the first free slot
warn_command(t, user, target) ==
    /\ Dispatch
    /\ task[t].pc = "idle"
    /\ \A s \in Tasks : s < t => task[s].pc # "idle"
    /\ LET d == Decision("warn", user, target)
           gd == record_warning(group_data, target)
       IN /\ last' = Reply("warn", user, target, d)
          /\ IF d = "accepted"
             THEN /\ group_data' = gd
                  /\ task' = [task EXCEPT ![t] =
                         [pc |-> "warned", user |-> user, target |-> target,
                          warning_count |-> gd.user_warnings[target]]]
                  /\ warns_expected' =
                         [warns_expected EXCEPT ![target] = @ + 1]
             ELSE UNCHANGED <<group_data, task, warns_expected>>
    /\ UNCHANGED <<thread, msgs_handled>>
    /\ UNCHANGED <<storeVars, screened, welcomed, viewed>>

\* the reply "has been warned" returns; with 3 or more warnings the handler
\* goes on to restrict_chat_member; a reply that raises ends the handler
warn_reply(t, ok) ==
    /\ task[t].pc = "warned"
    /\ task' = [task EXCEPT ![t] =
           IF ok /\ ReachedLimit(task[t].warning_count)
           THEN [task[t] EXCEPT !.pc = "restrict"]
           ELSE IdleTask]
    /\ UNCHANGED <<group_data, thread, started, budget, last, warns_expected,
                   msgs_handled>>
    /\ UNCHANGED <<storeVars, screened, welcomed, viewed>>

\* restrict_chat_member returns: the rank is set and the notice is sent;
\* restrict_chat_member raises: the except clause logs and the handler ends
restrict_chat_member(t, ok) ==
    /\ task[t].pc = "restrict"
    /\ IF ok
       THEN /\ group_data' = update_user_permission(group_data, task[t].target,
                                 PERMISSION_LEVELS.restricted)
            /\ task' = [task EXCEPT ![t].pc = "notify"]
       ELSE /\ group_data' = group_data
            /\ task' = [task EXCEPT ![t] = IdleTask]
    /\ UNCHANGED <<thread, started, budget, last, warns_expected, msgs_handled>>
    /\ UNCHANGED <<storeVars, screened, welcomed, viewed>>

\* the notice "has reached 3 warnings" returns, or raises inside the try
restriction_notice(t) ==
    /\ task[t].pc = "notify"
    /\ task' = [task EXCEPT ![t] = IdleTask]
    /\ UNCHANGED <<group_data, thread, started, budget, last, warns_expected,
                   msgs_handled>>
    /\ UNCHANGED <<storeVars, screened, welcomed, viewed>>

\* ------------------------- message_handlers_new.py, command_handlers_new.py
IdleThread == [pc |-> "idle", handler |-> "none", local |-> 0]

\* the counter a handler of the *_new modules keeps in the group record
CounterOf(handler) ==
    IF handler = "handle_text_message" THEN "message_count" ELSE "command_count"

\* an update reaches a dispatcher thread, which runs the handler up to the
\* evaluation of group_data.get(counter, 0)
ReadCounter(h, handler) ==
    /\ thread[h].pc = "idle"
    /\ Dispatch
    /\ thread' = [thread EXCEPT ![h] =
           [pc |-> "read", handler |-> handler,
            local |-> group_data[CounterOf(handler)]]]
    /\ UNCHANGED <<group_data, task, last, warns_expected, msgs_handled>>
    /\ UNCHANGED <<storeVars, screened, welcomed, viewed>>

\* group_data[counter] = <value read> + 1; save_group_data(chat_id, group_data)
WriteCounter(h, handler) ==
    /\ thread[h].pc = "read"
    /\ thread[h].handler = handler
    /\ group_data' = [group_data EXCEPT ![CounterOf(handler)] = thread[h].local + 1]
    /\ msgs_handled' = [msgs_handled EXCEPT ![CounterOf(handler)] = @ + 1]
    /\ thread' = [thread EXCEPT ![h] = IdleThread]
    /\ UNCHANGED <<task, started, budget, last, warns_expected>>
    /\ UNCHANGED <<storeVars, screened, welcomed, viewed>>

handle_text_message_read(h) == ReadCounter(h, "handle_text_message")

handle_text_message_write(h) == WriteCounter(h, "handle_text_message")

stats_command_read(h) == ReadCounter(h, "stats_command")

stats_command_write(h) == WriteCounter(h, "stats_command")

\* rules_command with arguments: group_data['rules'] = new_rules, one store
rules_command(h, new_rules) ==
    /\ thread[h].pc = "idle"
    /\ Dispatch
    /\ group_data' = [group_data EXCEPT !.rules = new_rules]
    /\ UNCHANGED <<task, thread, last, warns_expected, msgs_handled>>
    /\ UNCHANGED <<storeVars, screened, welcomed, viewed>>

\* ------------------------------------- the content screen and its toggles
\* a text is a sequence of words; the pattern of moderation.py is
\* \b(badword1|badword2|badword3)\b, searched in the lowercased text
Words == {"hello", "BADWORD2", "badword3s"}

Lower(w) == IF w = "BADWORD2" THEN "badword2" ELSE w

INAPPROPRIATE_TERMS == {"badword1", "badword2", "badword3"}

Texts == UNION {[1..n -> Words] : n \in 0..MaxWords}

\* check_message_content: TRUE when the text is appropriate
check_message_content(text) ==
    \/ text = <<>>
    \/ \A i \in 1..Len(text) : Lower(text[i]) \notin INAPPROPRIATE_TERMS

NoMessage ==
    [handler |-> "none", at |-> 0, sender |-> NoTarget, text |-> <<>>,
     deleted |-> FALSE, notice |-> FALSE, by |-> "none"]

\* the arguments of /settings as the handler reads them: args[0].lower(),
\* args[1].lower()
SettingArgs ==
    {<<>>, <<"moderation">>, <<"moderation", "on", "now">>}
        \cup ({"welcome", "Moderation", "autodelete", "rules"} \X {"on", "OFF", "yes"})

LowerArg(w) ==
    CASE w = "Moderation" -> "moderation"
      [] w = "OFF" -> "off"
      [] OTHER -> w

\* the key settings_command stores for a setting name
SettingKey(setting) ==
    CASE setting = "welcome" -> "welcome_enabled"
      [] setting = "moderation" -> "moderation_enabled"
      [] setting = "autodelete" -> "auto_delete_enabled"

\* the reply with which settings_command leaves
SettingsDecision(user, args) ==
    IF InsufficientRank(check_permission(user), PERMISSION_LEVELS.admin)
    THEN "insufficientRank"
    ELSE IF args = <<>> THEN "shown"
    ELSE IF Len(args) # 2 THEN "invalidFormat"
    ELSE IF LowerArg(args[2]) \notin {"on", "off"} THEN "invalidValue"
    ELSE IF LowerArg(args[1]) \notin {"welcome", "moderation", "autodelete"}
    THEN "unknownSetting"
    ELSE "accepted"

\* mutant: the accepted call stores the named toggle in a fresh dictionary
settings_command_reset(user, args) ==
    /\ Dispatch
    /\ LET d == SettingsDecision(user, args) IN
       /\ last' = Reply("settings", user, NoTarget, d)
       /\ group_data' =
              IF d = "accepted"
              THEN [group_data EXCEPT !.settings =
                       put(EmptyDict, SettingKey(LowerArg(args[1])),
                           LowerArg(args[2]) = "on")]
              ELSE group_data
    /\ UNCHANGED <<task, thread, warns_expected, msgs_handled, screened>>
    /\ UNCHANGED <<storeVars, welcomed, viewed>>

\* settings_command of command_handlers.py, from the rank test to the reply
settings_command(user, args) ==
    /\ Dispatch
    /\ LET d == SettingsDecision(user, args) IN
       /\ last' = Reply("settings", user, NoTarget, d)
       /\ group_data' =
              IF d = "accepted"
              THEN [group_data EXCEPT !.settings =
                       put(@, SettingKey(LowerArg(args[1])), LowerArg(args[2]) = "on")]
              ELSE group_data
    /\ UNCHANGED <<task, thread, warns_expected, msgs_handled, screened>>
    /\ UNCHANGED <<storeVars, welcomed, viewed>>

\* the values settings_command displays: `Welcome new members`, `Content
\* moderation`, `Auto-delete offensive messages`
SettingsShown(st) ==
    [welcome |-> get(st, "welcome_enabled", TRUE),
     moderation |-> get(st, "moderation_enabled", TRUE),
     autodelete |-> get(st, "auto_delete_enabled", TRUE)]

\* mutant: the handler does not look at the stored toggle
Toggle_unread(st, key, default) == default

\* group_data.get(key, default)
Toggle(st, key, default) == get(st, key, default)

\* handle_text_message of message_handlers.py; del_ok, note_ok: the platform
\* calls message.delete() and send_message return (TRUE) or raise (FALSE)
handle_text_message(user, text, del_ok, note_ok) ==
    /\ Dispatch
    /\ group_data' = [group_data EXCEPT !.message_count = @ + 1]
    /\ LET st == group_data.settings
           banned == check_permission(user) = PERMISSION_LEVELS.banned
           flagged == /\ ~banned
                      /\ Toggle(st, "moderation_enabled", TRUE)
                      /\ ~check_message_content(text)
           auto == Toggle(st, "auto_delete_enabled", TRUE)
       IN /\ del_ok \/ banned \/ (flagged /\ auto)
          /\ note_ok \/ flagged
          /\ screened' =
              [handler |-> "message_handlers", at |-> started + 1,
               sender |-> user, text |-> text,
               deleted |-> (banned \/ (flagged /\ auto)) /\ del_ok,
               notice |-> flagged /\ note_ok /\ (auto => del_ok),
               by |-> IF banned THEN "rank" ELSE IF flagged THEN "screen" ELSE "none"]
    /\ UNCHANGED <<task, thread, last, warns_expected, msgs_handled>>
    /\ UNCHANGED <<storeVars, welcomed, viewed>>

\* mutant: the screen records a warning against the sender of a flagged text
handle_text_message_new_warns(user, text, del_ok, note_ok) ==
    /\ Dispatch
    /\ LET st == group_data.settings
           flagged == /\ Toggle(st, "moderation_enabled", FALSE)
                      /\ ~check_message_content(text)
           auto == Toggle(st, "auto_delete", FALSE)
           counted == [group_data EXCEPT !.message_count = @ + 1]
       IN /\ del_ok \/ (flagged /\ auto)
          /\ note_ok \/ flagged
          /\ group_data' = IF flagged THEN record_warning(counted, user) ELSE counted
          /\ screened' =
              [handler |-> "message_handlers_new", at |-> started + 1,
               sender |-> user, text |-> text,
               deleted |-> flagged /\ auto /\ del_ok,
               notice |-> flagged /\ note_ok,
               by |-> IF flagged THEN "screen" ELSE "none"]
    /\ UNCHANGED <<task, thread, last, warns_expected, msgs_handled>>
    /\ UNCHANGED <<storeVars, welcomed, viewed>>

\* handle_text_message of message_handlers_new.py, run by one dispatcher
\* thread from its first line to its last
handle_text_message_new(user, text, del_ok, note_ok) ==
    /\ Dispatch
    /\ group_data' = [group_data EXCEPT !.message_count = @ + 1]
    /\ LET st == group_data.settings
           flagged == /\ Toggle(st, "moderation_enabled", FALSE)
                      /\ ~check_message_content(text)
           auto == Toggle(st, "auto_delete", FALSE)
       IN /\ del_ok \/ (flagged /\ auto)
          /\ note_ok \/ flagged
          /\ screened' =
              [handler |-> "message_handlers_new", at |-> started + 1,
               sender |-> user, text |-> text,
               deleted |-> flagged /\ auto /\ del_ok,
               notice |-> flagged /\ note_ok,
               by |-> IF flagged THEN "screen" ELSE "none"]
    /\ UNCHANGED <<task, thread, last, warns_expected, msgs_handled>>
    /\ UNCHANGED <<storeVars, welcomed, viewed>>

\* ------------------- handle_new_chat_members of the two handler modules
NoWelcome == [handler |-> "none", at |-> 0, joined |-> 0, sent |-> 0]

\* the join updates: `joined` members other than the bot, and possibly the
\* bot itself, are in new_chat_members; `failed` is the number of the
\* welcome whose platform call raises, 0 when every call returns
Joins ==
    {j \in [joined : 0..MaxJoined, bot_added : BOOLEAN, failed : 0..MaxJoined] :
        /\ j.joined > 0 \/ j.bot_added
        /\ j.failed <= j.joined}

\* message_handlers.py: nothing is sent when welcome_enabled is off; the
\* bot is skipped in the loop; send_message is awaited outside any try, so
\* a call that raises ends the handler
handle_new_chat_members(j) ==
    /\ Dispatch
    /\ LET enabled == Toggle(group_data.settings, "welcome_enabled", TRUE) IN
       /\ j.failed = 0 \/ enabled
       /\ welcomed' =
              [handler |-> "message_handlers", at |-> started + 1,
               joined |-> j.joined,
               sent |-> IF ~enabled THEN 0
                        ELSE IF j.failed = 0 THEN j.joined ELSE j.failed - 1]
    /\ UNCHANGED <<group_data, task, thread, last, warns_expected,
                   msgs_handled, screened, viewed>>
    /\ UNCHANGED storeVars

\* message_handlers_new.py: the handler returns when the bot is among the
\* new members; otherwise every member is welcomed, a reply_text that raises
\* is logged and the loop goes on, and member_count grows by
\* len(new_members)
handle_new_chat_members_new(j) ==
    /\ Dispatch
    /\ j.failed = 0 \/ ~j.bot_added
    /\ welcomed' =
           [handler |-> "message_handlers_new", at |-> started + 1,
            joined |-> j.joined,
            sent |-> IF j.bot_added THEN 0
                     ELSE IF j.failed = 0 THEN j.joined ELSE j.joined - 1]
    /\ group_data' =
           IF j.bot_added THEN group_data
           ELSE [group_data EXCEPT !.member_count = @ + j.joined]
    /\ UNCHANGED <<task, thread, last, warns_expected, msgs_handled, screened, viewed>>
    /\ UNCHANGED storeVars

\* --------------------------- rules_command of the two command modules
\* context.args: none, or the words of a rules text; ' '.join(context.args)
\* is kept as the number of the text
NoArgs == 0

RulesArgs == {NoArgs} \cup {1, 2}

\* group_data.get('rules', "No rules have been set for this group.")
NoRules == 0

NoView == [handler |-> "none", at |-> 0, rules |-> NoRules]

\* the reply with which rules_command of command_handlers.py leaves
RulesDecision(user, args) ==
    IF args = NoArgs THEN "shown"
    ELSE IF InsufficientRank(check_permission(user), PERMISSION_LEVELS.moderator)
    THEN "insufficientRank"
    ELSE "accepted"

\* command_handlers.py: a view needs no rank, a set needs moderator
rules_command_async(user, args) ==
    /\ Dispatch
    /\ LET d == RulesDecision(user, args) IN
       /\ last' = Reply("rules", user, NoTarget, d)
       /\ group_data' = IF d = "accepted"
                        THEN [group_data EXCEPT !.rules = args]
                        ELSE group_data
       /\ viewed' = IF d = "shown"
                   THEN [handler |-> "command_handlers", at |-> started + 1,
                         rules |-> group_data.rules]
                   ELSE viewed
    /\ UNCHANGED <<task, thread, warns_expected, msgs_handled, screened, welcomed>>
    /\ UNCHANGED storeVars

\* command_handlers_new.py: "we'll allow all users to set rules"
rules_command_new(user, args) ==
    /\ Dispatch
    /\ LET d == IF args = NoArgs THEN "shown" ELSE "accepted" IN
       /\ last' = Reply("rules", user, NoTarget, d)
       /\ group_data' = IF d = "accepted"
                        THEN [group_data EXCEPT !.rules = args]
                        ELSE group_data
       /\ viewed' = IF d = "shown"
                   THEN [handler |-> "command_handlers_new", at |-> started + 1,
                         rules |-> group_data.rules]
                   ELSE viewed
    /\ UNCHANGED <<task, thread, warns_expected, msgs_handled, screened, welcomed>>
    /\ UNCHANGED storeVars

\* ------------------------------------------------------ utils/helpers.py
\* get_user_profile: the rank is permissions.get(id, 0) and the count is
\* group_data.get('warnings', {}).get(id, 0)
get_user_profile(gd, user_id) ==
    [user_id |-> user_id,
     permission_level |-> get(gd.permissions, user_id, 0),
     warnings |-> get(IF "warnings" \in DOMAIN gd THEN gd.warnings ELSE EmptyDict,
                      user_id, 0)]

\* ------------------------------------------------------ storage/data.py
\* The store is followed on its own: a group record is one opaque content,
\* 0 for the record {} that get_group_data creates, and a JSON document is
\* the set of its top-level keys with the dictionaries under 'groups' and
\* 'users'.
Raised == -1

EmptyRecord == 0

Contents == 1..MaxContent

\* _data = {'groups': {}, 'users': {}}
DefaultData == [keys |-> {"groups", "users"}, groups |-> EmptyDict, users |-> EmptyDict]

NoFile == [kind |-> "missing", doc |-> DefaultData]

\* a file that json.load cannot parse
Unparsable == [kind |-> "unparsable", doc |-> DefaultData]

Json(doc) == [kind |-> "json", doc |-> doc]

NoCall == [op |-> "none", chat |-> 0, ret |-> EmptyRecord, ok |-> TRUE, saved |-> "none"]

\* load_data: _data = json.load(f) when the file exists and parses; a missing
\* file and any exception leave _data as it is
load_data(d, f) == IF f.kind = "json" THEN f.doc ELSE d

\* how a call of save_data ends: the dump is written; open() raises and the
\* file is untouched; open() has truncated the file and the dump raises
SaveOutcomes == {"written", "openFailed", "writeFailed"}

\* save_data: the content of the file afterwards; every exception is logged
\* and swallowed
save_data(d, f, out) ==
    CASE out = "written" -> Json(d)
      [] out = "openFailed" -> f
      [] out = "writeFailed" -> Unparsable

\* `if not _data[part]: load_data()`
Reload(d, f, part) == IF d[part] = EmptyDict THEN load_data(d, f) ELSE d

\* get_group_data: the dictionary afterwards and the record returned, or
\* Raised when _data has no key 'groups'
GetGroup(d, f, c) ==
    IF "groups" \notin d.keys
    THEN [data |-> d, ret |-> Raised]
    ELSE LET d1 == Reload(d, f, "groups") IN
         IF "groups" \notin d1.keys
         THEN [data |-> d1, ret |-> Raised]
         ELSE LET d2 == IF c \in DOMAIN d1.groups THEN d1
                        ELSE [d1 EXCEPT !.groups = put(@, c, EmptyRecord)]
              IN [data |-> d2, ret |-> d2.groups[c]]

\* a handler reads the record of group c
get_group_data(c) ==
    /\ Dispatch
    /\ LET r == GetGroup(data, file, c) IN
       /\ data' = r.data
       /\ outcome' = [op |-> "get_group_data", chat |-> c, ret |-> r.ret,
                      ok |-> r.ret # Raised, saved |-> "none"]
    /\ file' = file
    /\ UNCHANGED <<members, loader>>
    /\ UNCHANGED handlerVars

\* get_user_data: reloads when _data['users'] is empty, creates the record
get_user_data(u) ==
    /\ Dispatch
    /\ LET raises == "users" \notin data.keys
           d1 == IF raises THEN data ELSE Reload(data, file, "users")
           raises1 == "users" \notin d1.keys
           d2 == IF raises1 \/ u \in DOMAIN d1.users THEN d1
                 ELSE [d1 EXCEPT !.users = put(@, u, EmptyRecord)]
       IN /\ data' = d2
          /\ outcome' = [op |-> "get_user_data", chat |-> 0,
                         ret |-> IF raises1 THEN Raised ELSE d2.users[u],
                         ok |-> ~raises1, saved |-> "none"]
    /\ file' = file
    /\ UNCHANGED <<members, loader>>
    /\ UNCHANGED handlerVars

\* the update of set_permission: get_group_data, a store into the record it
\* returned, save_group_data; the value returned is True unless an exception
\* reached the except clause of set_permission
group_update(c, v, out) ==
    /\ Dispatch
    /\ LET r == GetGroup(data, file, c) IN
       IF r.ret = Raised
       THEN /\ data' = r.data
            /\ file' = file
            /\ outcome' = [op |-> "set_permission", chat |-> c, ret |-> Raised,
                           ok |-> FALSE, saved |-> "none"]
       ELSE LET d3 == [r.data EXCEPT !.groups[c] = v] IN
            /\ data' = d3
            /\ file' = save_data(d3, file, out)
            /\ outcome' = [op |-> "set_permission", chat |-> c, ret |-> v,
                           ok |-> TRUE, saved |-> out]
    /\ UNCHANGED <<members, loader>>
    /\ UNCHANGED handlerVars

\* ------------------------------------------------------ utils/database.py
\* The table `members` is a dictionary from (user_id, group_id) to the columns
\* permission_level and warnings; `ok` is the outcome of db.session.commit():
\* it returns (TRUE) or raises SQLAlchemyError (FALSE), after which the
\* helper rolls the session back.
None == -2

\* Column(Integer, default=0) for permission_level and for warnings
NewMember(permission_level) ==
    [permission_level |-> permission_level, warnings |-> 0]

\* Member.query.filter_by(user_id=..., group_id=...).first() finds a row
IsMember(u, c) == <<u, c>> \in DOMAIN members

\* get_or_create_member with the default permission_level; known: the rows
\* of the user and of the group exist; a failed commit is raised again
get_or_create_member(u, c, known, ok) ==
    /\ Dispatch
    /\ ok \/ (known /\ ~IsMember(u, c))
    /\ IF ~known
       THEN /\ members' = members
            /\ outcome' = [op |-> "get_or_create_member", chat |-> c, ret |-> None,
                           ok |-> TRUE, saved |-> "none"]
       ELSE IF IsMember(u, c)
       THEN /\ members' = members
            /\ outcome' = [op |-> "get_or_create_member", chat |-> c,
                           ret |-> members[<<u, c>>].warnings,
                           ok |-> TRUE, saved |-> "none"]
       ELSE IF ok
       THEN /\ members' = put(members, <<u, c>>, NewMember(0))
            /\ outcome' = [op |-> "get_or_create_member", chat |-> c, ret |-> 0,
                           ok |-> TRUE, saved |-> "commit"]
       ELSE /\ members' = members
            /\ outcome' = [op |-> "get_or_create_member", chat |-> c, ret |-> Raised,
                           ok |-> FALSE, saved |-> "rollback"]
    /\ UNCHANGED <<data, file, loader>>
    /\ UNCHANGED handlerVars

\* increment_user_warning: the new count, or None when there is no row or
\* the commit failed
increment_user_warning(u, c, ok) ==
    /\ Dispatch
    /\ ok \/ IsMember(u, c)
    /\ IF IsMember(u, c) /\ ok
       THEN /\ members' = [members EXCEPT ![<<u, c>>].warnings = @ + 1]
            /\ outcome' = [op |-> "increment_user_warning", chat |-> c,
                           ret |-> members[<<u, c>>].warnings + 1,
                           ok |-> TRUE, saved |-> "commit"]
       ELSE /\ members' = members
            /\ outcome' = [op |-> "increment_user_warning", chat |-> c, ret |-> None,
                           ok |-> ~IsMember(u, c),
                           saved |-> IF IsMember(u, c) THEN "rollback" ELSE "none"]
    /\ UNCHANGED <<data, file, loader>>
    /\ UNCHANGED handlerVars

\* update_member_permission: True when the row exists and the commit returns
update_member_permission(u, c, permission_level, ok) ==
    /\ Dispatch
    /\ ok \/ IsMember(u, c)
    /\ IF IsMember(u, c) /\ ok
       THEN /\ members' = [members EXCEPT
                             ![<<u, c>>].permission_level = permission_level]
            /\ outcome' = [op |-> "update_member_permission", chat |-> c,
                           ret |-> permission_level, ok |-> TRUE, saved |-> "commit"]
       ELSE /\ members' = members
            /\ outcome' = [op |-> "update_member_permission", chat |-> c,
                           ret |-> None, ok |-> FALSE,
                           saved |-> IF IsMember(u, c) THEN "rollback" ELSE "none"]
    /\ UNCHANGED <<data, file, loader>>
    /\ UNCHANGED handlerVars

\* get_member_permission: the level of the row, or 0 when there is none
get_member_permission(u, c) ==
    /\ Dispatch
    /\ members' = members
    /\ outcome' = [op |-> "get_member_permission", chat |-> c,
                   ret |-> IF IsMember(u, c) THEN members[<<u, c>>].permission_level
                           ELSE 0,
                   ok |-> TRUE, saved |-> "none"]
    /\ UNCHANGED <<data, file, loader>>
    /\ UNCHANGED handlerVars

\* ------------------------------------ the store under the dispatcher threads
\* The store part of handle_text_message (message_handlers_new.py:82-86) in
\* a dispatcher thread: get_group_data, message_count + 1, save_group_data.
\* A thread can be preempted wherever the interpreter releases its lock; the
\* steps kept apart here are the test `if not _data['groups']`, the read of
\* the file by json.load and the assignment `_data = ...` of load_data.  A
\* group record is its message_count, EmptyRecord for the record {}.
IdleLoader == [pc |-> "idle", chat |-> 0, doc |-> DefaultData]

\* get_group_data up to the call of load_data; a dictionary without the key
\* 'groups' raises KeyError, which the handler's except clause logs
get_group_data_test(h, c) ==
    /\ loader[h].pc = "idle"
    /\ Dispatch
    /\ loader' = [loader EXCEPT ![h] =
           IF "groups" \notin data.keys THEN IdleLoader
           ELSE [pc |-> IF data.groups = EmptyDict THEN "load_data" ELSE "loaded",
                 chat |-> c, doc |-> DefaultData]]
    /\ UNCHANGED <<data, file, outcome, members>>
    /\ UNCHANGED handlerVars

\* load_data: os.path.exists, open and json.load(f) have read the file
load_data_read(h) ==
    /\ loader[h].pc = "load_data"
    /\ loader' = [loader EXCEPT ![h] =
           IF file.kind = "json"
           THEN [@ EXCEPT !.pc = "parsed", !.doc = file.doc]
           ELSE [@ EXCEPT !.pc = "loaded"]]
    /\ UNCHANGED <<data, file, outcome, members, started, budget>>
    /\ UNCHANGED handlerVars

\* load_data: `_data = ` the document that was parsed
load_data_assign(h) ==
    /\ loader[h].pc = "parsed"
    /\ data' = loader[h].doc
    /\ loader' = [loader EXCEPT ![h] = [@ EXCEPT !.pc = "loaded", !.doc = DefaultData]]
    /\ UNCHANGED <<file, outcome, members, started, budget>>
    /\ UNCHANGED handlerVars

\* the rest of get_group_data and of the handler: the record is created when
\* absent, message_count is incremented, save_group_data stores and saves
count_message(h, out) ==
    /\ loader[h].pc = "loaded"
    /\ LET c == loader[h].chat IN
       IF "groups" \notin data.keys
       THEN UNCHANGED <<data, file, outcome>>
       ELSE LET d == [data EXCEPT !.groups = put(@, c, get(@, c, EmptyRecord) + 1)] IN
            /\ data' = d
            /\ file' = save_data(d, file, out)
            /\ outcome' = [op |-> "handle_text_message", chat |-> c,
                           ret |-> d.groups[c], ok |-> TRUE, saved |-> out]
    /\ loader' = [loader EXCEPT ![h] = IdleLoader]
    /\ UNCHANGED <<members, started, budget>>
    /\ UNCHANGED handlerVars

\* --------------------------------------------------------- specification
\* the ranks found in the data file at start: the first two members have
\* any rank or none, the other members have no record; the handlers treat
\* all member ids alike, so the member of the higher rank is taken first
InitPermissions ==
    {p \in UNION {[S -> Ranks] : S \in SUBSET (Users \cap {1, 2})} :
        get(p, 1, PERMISSION_LEVELS.regular) >= get(p, 2, PERMISSION_LEVELS.regular)}

\* the warning counts found in the data file at start: none, or two warnings
\* of the second member
InitWarnings == {EmptyDict, [x \in {2} |-> 2]}

\* the store as the handlers' specifications leave it aside
StoreAtRest ==
    /\ data = DefaultData
    /\ file = NoFile
    /\ outcome = NoCall
    /\ screened = NoMessage
    /\ welcomed = NoWelcome
    /\ viewed = NoView
    /\ members = EmptyDict
    /\ loader = [h \in Threads |-> IdleLoader]

Init ==
    /\ \E p \in InitPermissions, w \in InitWarnings :
          /\ group_data = [EmptyGroup EXCEPT !.permissions = p,
                                             !.user_warnings = w,
                                             !.warnings_issued = get(w, 2, 0)]
          /\ warns_expected = [u \in Users |-> get(w, u, 0)]
    /\ task = [t \in Tasks |-> IdleTask]
    /\ thread = [h \in Threads |-> IdleThread]
    /\ started = 0
    /\ budget = MaxCmds
    /\ last = NoCommand
    /\ StoreAtRest
    /\ msgs_handled = [message_count |-> 0, command_count |-> 0]

Targets == Users \cup {NoTarget}

Next ==
    \/ \E u \in Users, g \in Targets : promote_command(u, g)
    \/ \E u \in Users, g \in Targets : demote_command(u, g)
    \/ \E u \in Users, g \in Targets, ok \in BOOLEAN : ban_command(u, g, ok)
    \/ \E u \in Users, g \in Targets, ok \in BOOLEAN : mute_command(u, g, ok)
    \/ \E u \in Users, g \in Targets, ok \in BOOLEAN : unmute_command(u, g, ok)
    \/ \E t \in Tasks, u \in Users, g \in Targets : warn_command(t, u, g)
    \/ \E t \in Tasks, ok \in BOOLEAN : warn_reply(t, ok)
    \/ \E t \in Tasks, ok \in BOOLEAN : restrict_chat_member(t, ok)
    \/ \E t \in Tasks : restriction_notice(t)

Spec == Init /\ [][Next]_vars

\* the end-to-end scenario: the first member is admin, nobody else has a
\* recorded rank, no warning is recorded
InitScenario ==
    /\ group_data = [EmptyGroup EXCEPT
                         !.permissions = [x \in {1} |-> PERMISSION_LEVELS.admin]]
    /\ warns_expected = [u \in Users |-> 0]
    /\ task = [t \in Tasks |-> IdleTask]
    /\ thread = [h \in Threads |-> IdleThread]
    /\ started = 0
    /\ budget = MaxSuccessive
    /\ last = NoCommand
    /\ StoreAtRest
    /\ msgs_handled = [message_count |-> 0, command_count |-> 0]

SpecScenario == InitScenario /\ [][Next]_vars

\* the dispatcher threads of webhook.py on an empty group record
InitThreads ==
    /\ group_data = EmptyGroup
    /\ task = [t \in Tasks |-> IdleTask]
    /\ thread = [h \in Threads |-> IdleThread]
    /\ started = 0
    /\ budget = MaxUpdates
    /\ last = NoCommand
    /\ StoreAtRest
    /\ warns_expected = [u \in Users |-> 0]
    /\ msgs_handled = [message_count |-> 0, command_count |-> 0]

RulesTexts == {1, 2}

NextThreads ==
    \/ \E h \in Threads : handle_text_message_read(h)
    \/ \E h \in Threads : handle_text_message_write(h)
    \/ \E h \in Threads : stats_command_read(h)
    \/ \E h \in Threads : stats_command_write(h)
    \/ \E h \in Threads, r \in RulesTexts : rules_command(h, r)

SpecThreads == InitThreads /\ [][NextThreads]_vars


\* the data file found when data.py is imported: none, one that does not
\* parse, or a JSON document with or without the keys 'groups' and 'users'
Documents ==
    {[keys |-> k, groups |-> g, users |-> EmptyDict] :
        k \in {{}, {"users"}, {"groups", "users"}},
        g \in {EmptyDict, [x \in {1} |-> 1]}}

InitFiles == {NoFile, Unparsable} \cup {Json(d) : d \in Documents}

\* `load_data()` at the end of data.py
InitStore ==
    /\ file \in InitFiles
    /\ data = load_data(DefaultData, file)
    /\ outcome = NoCall
    /\ screened = NoMessage
    /\ welcomed = NoWelcome
    /\ viewed = NoView
    /\ members = EmptyDict
    /\ loader = [h \in Threads |-> IdleLoader]
    /\ group_data = EmptyGroup
    /\ task = [t \in Tasks |-> IdleTask]
    /\ thread = [h \in Threads |-> IdleThread]
    /\ started = 0
    /\ budget = MaxCalls
    /\ last = NoCommand
    /\ warns_expected = [u \in Users |-> 0]
    /\ msgs_handled = [message_count |-> 0, command_count |-> 0]

NextStore ==
    \/ \E c \in Chats : get_group_data(c)
    \/ \E u \in Users : get_user_data(u)
    \/ \E c \in Chats, v \in Contents, out \in SaveOutcomes : group_update(c, v, out)

SpecStore == InitStore /\ [][NextStore]_vars

\* the dispatcher threads on the store as data.py leaves it at import
InitReload ==
    /\ file \in InitFiles
    /\ data = load_data(DefaultData, file)
    /\ outcome = NoCall
    /\ screened = NoMessage
    /\ welcomed = NoWelcome
    /\ viewed = NoView
    /\ members = EmptyDict
    /\ loader = [h \in Threads |-> IdleLoader]
    /\ group_data = EmptyGroup
    /\ task = [t \in Tasks |-> IdleTask]
    /\ thread = [h \in Threads |-> IdleThread]
    /\ started = 0
    /\ budget = MaxCalls
    /\ last = NoCommand
    /\ warns_expected = [u \in Users |-> 0]
    /\ msgs_handled = [message_count |-> 0, command_count |-> 0]

NextReload ==
    \/ \E h \in Threads, c \in Chats : get_group_data_test(h, c)
    \/ \E h \in Threads : load_data_read(h)
    \/ \E h \in Threads : load_data_assign(h)
    \/ \E h \in Threads, out \in SaveOutcomes : count_message(h, out)

SpecReload == InitReload /\ [][NextReload]_vars

\* the database helpers on an empty table `members`
InitMembers ==
    /\ members = EmptyDict
    /\ loader = [h \in Threads |-> IdleLoader]
    /\ data = DefaultData
    /\ file = NoFile
    /\ outcome = NoCall
    /\ screened = NoMessage
    /\ welcomed = NoWelcome
    /\ viewed = NoView
    /\ group_data = EmptyGroup
    /\ task = [t \in Tasks |-> IdleTask]
    /\ thread = [h \in Threads |-> IdleThread]
    /\ started = 0
    /\ budget = MaxCalls
    /\ last = NoCommand
    /\ warns_expected = [u \in Users |-> 0]
    /\ msgs_handled = [message_count |-> 0, command_count |-> 0]

NextMembers ==
    \/ \E u \in Users, c \in Chats, known, ok \in BOOLEAN :
          get_or_create_member(u, c, known, ok)
    \/ \E u \in Users, c \in Chats, ok \in BOOLEAN : increment_user_warning(u, c, ok)
    \/ \E u \in Users, c \in Chats, r \in Ranks, ok \in BOOLEAN :
          update_member_permission(u, c, r, ok)
    \/ \E u \in Users, c \in Chats : get_member_permission(u, c)

SpecMembers == InitMembers /\ [][NextMembers]_vars

\* the toggles as earlier /settings commands have left them: each of the
\* keys settings_command writes is unset, on or off
InitSettings ==
    UNION {[K -> BOOLEAN] :
              K \in SUBSET {"welcome_enabled", "moderation_enabled", "auto_delete_enabled"}}

\* the content screen: the first member is admin, the second has no rank,
\* is restricted or is banned
InitScreen ==
    /\ \E r \in {PERMISSION_LEVELS.regular, PERMISSION_LEVELS.restricted,
                 PERMISSION_LEVELS.banned}, st \in InitSettings :
          group_data = [EmptyGroup EXCEPT
                           !.settings = st,
                           !.permissions =
                               IF r = PERMISSION_LEVELS.regular
                               THEN [x \in {1} |-> PERMISSION_LEVELS.admin]
                               ELSE (1 :> PERMISSION_LEVELS.admin) @@ (2 :> r)]
    /\ warns_expected = [u \in Users |-> 0]
    /\ task = [t \in Tasks |-> IdleTask]
    /\ thread = [h \in Threads |-> IdleThread]
    /\ started = 0
    /\ budget = MaxMessages
    /\ last = NoCommand
    /\ msgs_handled = [message_count |-> 0, command_count |-> 0]
    /\ StoreAtRest

NextScreen ==
    \/ \E u \in Users, args \in SettingArgs : settings_command(u, args)
    \/ \E u \in Users, text \in Texts, d, n \in BOOLEAN :
          handle_text_message(u, text, d, n)
    \/ \E u \in Users, text \in Texts, d, n \in BOOLEAN :
          handle_text_message_new(u, text, d, n)

SpecScreen == InitScreen /\ [][NextScreen]_vars

\* /settings and the text handlers on a group whose record holds no toggle:
\* the first member is admin
InitToggles ==
    /\ group_data = [EmptyGroup EXCEPT
                         !.permissions = [x \in {1} |-> PERMISSION_LEVELS.admin]]
    /\ warns_expected = [u \in Users |-> 0]
    /\ task = [t \in Tasks |-> IdleTask]
    /\ thread = [h \in Threads |-> IdleThread]
    /\ started = 0
    /\ budget = MaxSettings
    /\ last = NoCommand
    /\ msgs_handled = [message_count |-> 0, command_count |-> 0]
    /\ StoreAtRest

SpecToggles == InitToggles /\ [][NextScreen]_vars

\* /settings and the joins of new members on a group whose record holds no
\* toggle
NextWelcome ==
    \/ \E u \in Users, args \in SettingArgs : settings_command(u, args)
    \/ \E j \in Joins : handle_new_chat_members(j)
    \/ \E j \in Joins : handle_new_chat_members_new(j)

SpecWelcome == InitToggles /\ [][NextWelcome]_vars

\* /rules on a group without rules: the first member is moderator or admin,
\* the second has no recorded rank or is restricted
InitRules ==
    /\ \E r1 \in {PERMISSION_LEVELS.moderator, PERMISSION_LEVELS.admin},
          p2 \in {EmptyDict, [x \in {2} |-> PERMISSION_LEVELS.restricted]} :
          group_data = [EmptyGroup EXCEPT !.permissions = (1 :> r1) @@ p2]
    /\ warns_expected = [u \in Users |-> 0]
    /\ task = [t \in Tasks |-> IdleTask]
    /\ thread = [h \in Threads |-> IdleThread]
    /\ started = 0
    /\ budget = MaxRules
    /\ last = NoCommand
    /\ msgs_handled = [message_count |-> 0, command_count |-> 0]
    /\ StoreAtRest

NextRules ==
    \/ \E u \in Users, args \in RulesArgs : rules_command_async(u, args)
    \/ \E u \in Users, args \in RulesArgs : rules_command_new(u, args)

SpecRules == InitRules /\ [][NextRules]_vars

\* all the handlers of one group: the first member is admin, the second has
\* no recorded rank and two warnings, no toggle was ever set
InitGroup ==
    /\ group_data = [EmptyGroup EXCEPT
                         !.permissions = [x \in {1} |-> PERMISSION_LEVELS.admin],
                         !.user_warnings = [x \in {2} |-> 2],
                         !.warnings_issued = 2]
    /\ warns_expected = [u \in Users |-> IF u = 2 THEN 2 ELSE 0]
    /\ task = [t \in Tasks |-> IdleTask]
    /\ thread = [h \in Threads |-> IdleThread]
    /\ started = 0
    /\ budget = MaxHandled
    /\ last = NoCommand
    /\ msgs_handled = [message_count |-> 0, command_count |-> 0]
    /\ StoreAtRest

NextGroup == Next \/ NextScreen

SpecGroup == InitGroup /\ [][NextGroup]_vars

\* ================================================================ claims
\* the rule of the permission ledger: act only from the minimum rank up,
\* and only on a member of strictly lower rank
authorize(a, b, minimum) == a >= minimum /\ a > b

\* the minimum rank each command is claimed to require
ClaimedMinimum(cmd) ==
    IF cmd \in {"promote", "demote", "ban"} THEN 100 ELSE 50

\* this step is the handler of one of cmds answering
Decides(cmds) ==
    /\ started' = started + 1
    /\ last'.cmd \in cmds

\* this step is member u invoking cmd on member g
Invoked(cmd, u, g) ==
    IF cmd = "warn"
    THEN \E t \in Tasks : warn_command(t, u, g)
    ELSE \E ok \in BOOLEAN : RankCommand(cmd, u, g, ok)

WarningCount(u) == get(group_data.user_warnings, u, 0)

C2_NoLostWarning ==
    \A u \in Users : WarningCount(u) = warns_expected[u]

\* two warns on the same member are in flight at once and both are counted
C2_Witness ==
    \E t1, t2 \in Tasks :
        /\ t1 # t2
        /\ task[t1].pc = "warned" /\ task[t2].pc = "warned"
        /\ task[t1].target = task[t2].target
        /\ task[t1].warning_count + 1 = task[t2].warning_count
        /\ WarningCount(task[t1].target) = task[t2].warning_count

\* C3: two handlers updating the same group record take effect in some serial
\* order: once no handler is in flight, each counter of the record equals the
\* number of handler runs that incremented it.
C3_SerialOrder ==
    (\A h \in Threads : thread[h].pc = "idle") =>
        /\ group_data.message_count = msgs_handled.message_count
        /\ group_data.command_count = msgs_handled.command_count

\* C4 (as claimed): an accepted promote leaves the target strictly below the
\* rank of the acting member.
C4_PromoteBelowActor ==
    [][Decides({"promote"}) /\ Mutates(last'.result) =>
        group_data'.permissions[last'.target] < check_permission(last'.user)]_vars

\* C4 (amended): an accepted promote writes moderator or admin and never a
\* rank above the acting member's; the new rank equals the actor's only when
\* an admin promotes a member at or above moderator.
C4_PromoteNotAboveActor ==
    [][Decides({"promote"}) /\ Mutates(last'.result) =>
        LET a == check_permission(last'.user)
            b == check_permission(last'.target)
            new == group_data'.permissions[last'.target]
        IN /\ new \in {50, 100}
           /\ new <= a
           /\ new = a => a = 100 /\ b >= 50]_vars

\* an admin has promoted a member to admin
C4_Witness ==
    /\ last.cmd = "promote"
    /\ last.result = "accepted"
    /\ check_permission(last.user) = PERMISSION_LEVELS.admin
    /\ check_permission(last.target) = PERMISSION_LEVELS.admin
    /\ last.user # last.target

\* C5: a rank written by promote, demote, ban, mute or warn is written only
\* while the authorization rule holds for the actor's and the target's rank
\* as stored at the moment of the write.
C5_AuthorizedAtWrite ==
    [][/\ Decides({"promote", "demote", "ban", "mute"}) /\ Mutates(last'.result) =>
            authorize(check_permission(last'.user), check_permission(last'.target),
                      ClaimedMinimum(last'.cmd))
       /\ \A t \in Tasks :
            task[t].pc = "restrict" /\ task'[t].pc = "notify" =>
                authorize(check_permission(task[t].user),
                          check_permission(task[t].target), 50)]_vars

\* C6: unmute of a target whose rank is equal to or higher than the actor's
\* is rejected and leaves the target's rank unchanged.
C6_UnmuteChecksTarget ==
    [][\A u, g \in Users :
          Invoked("unmute", u, g) /\ check_permission(g) >= check_permission(u) =>
              /\ ~Mutates(last'.result)
              /\ group_data'.permissions = group_data.permissions]_vars

\* C7: the store never shows a member whose count the running warn has
\* brought to 3 or more while the member's rank is not yet restricted.
C7_ThresholdAtomic ==
    \A t \in Tasks :
        /\ task[t].pc \in {"warned", "restrict"}
        /\ task[t].warning_count >= 3
        /\ WarningCount(task[t].target) >= 3
        => check_permission(task[t].target) = PERMISSION_LEVELS.restricted

\* C8: when the third accepted warn on a member has completed, the member's
\* stored rank is restricted, also when a platform call failed; and a promote
\* that is not authorized does not change any rank.
C8_RestrictedAfterThirdWarn ==
    [][/\ \A t \in Tasks :
            /\ task[t].pc # "idle" /\ task'[t].pc = "idle"
            /\ task[t].warning_count = 3
            => check_permission_in(group_data', task[t].target)
                   = PERMISSION_LEVELS.restricted
       /\ Decides({"promote"}) /\ ~Mutates(last'.result) =>
            group_data'.permissions = group_data.permissions]_vars

\* C9 (as claimed): the automatic restriction is performed only by the warn
\* that brings the count to 3, not by the 4th or a later warn.
C9_RestrictOnlyAtThird ==
    [][\A t \in Tasks :
          task[t].pc = "restrict" /\ task'[t].pc = "notify" =>
              task[t].warning_count = 3]_vars

\* C9 (amended): the automatic restriction is performed only by a warn whose
\* count after the increment is 3 or more, the 4th and later warns included,
\* and a warn with a lower count ends after its reply; each time the
\* restriction is performed the member's stored rank becomes restricted.
C9_RestrictFromThirdOn ==
    [][\A t \in Tasks :
          /\ task[t].pc = "warned" =>
                /\ task'[t].pc \in {"warned", "restrict", "idle"}
                /\ task'[t].pc = "restrict" => task[t].warning_count >= 3
          /\ task[t].pc = "restrict" /\ task'[t].pc = "notify" =>
                /\ task[t].warning_count >= 3
                /\ check_permission_in(group_data', task[t].target)
                       = PERMISSION_LEVELS.restricted]_vars

\* the 4th warn on a member has restricted the member again
C9_Witness ==
    \E t \in Tasks :
        /\ task[t].pc = "notify"
        /\ task[t].warning_count = 4
        /\ check_permission(task[t].target) = PERMISSION_LEVELS.restricted

\* C10: in every reachable state a member with 3 or more warnings has rank
\* restricted.
C10_CountImpliesRestricted ==
    \A u \in Users :
        WarningCount(u) >= 3 => check_permission(u) = PERMISSION_LEVELS.restricted

\* the sum of the warning counts stored for the members of the group
RECURSIVE SumCounts(_, _)
SumCounts(d, S) ==
    IF S = {} THEN 0
    ELSE LET u == CHOOSE x \in S : TRUE
         IN d[u] + SumCounts(d, S \ {u})

TotalWarnings(gd) == SumCounts(gd.user_warnings, DOMAIN gd.user_warnings)

\* C11: in every reachable state, concurrent warn_command coroutines
\* included, warnings_issued equals the sum of the members' warning counts,
\* and each accepted warn increases the counter and the target's count by
\* exactly 1.
C11_IssuedIsSum ==
    /\ [](group_data.warnings_issued = TotalWarnings(group_data))
    /\ [][Decides({"warn"}) /\ Mutates(last'.result) =>
            /\ group_data'.warnings_issued = group_data.warnings_issued + 1
            /\ TotalWarnings(group_data') = TotalWarnings(group_data) + 1
            /\ group_data'.user_warnings[last'.target]
                   = WarningCount(last'.target) + 1]_vars

\* two accepted warns are in flight at once and the counter shows both
C11_Witness ==
    /\ \E t1, t2 \in Tasks : t1 # t2 /\ task[t1].pc # "idle" /\ task[t2].pc # "idle"
    /\ last.cmd = "warn" /\ last.result = "accepted"
    /\ group_data.warnings_issued = 4
    /\ TotalWarnings(group_data) = 4

\* C12: an accepted promote writes moderator for a target below moderator,
\* admin for a target at or above moderator, and no other value.
C12_PromoteLevel ==
    [][Decides({"promote"}) /\ Mutates(last'.result) =>
        LET b == check_permission(last'.target)
            new == group_data'.permissions[last'.target]
        IN /\ b < PERMISSION_LEVELS.moderator => new = PERMISSION_LEVELS.moderator
           /\ b >= PERMISSION_LEVELS.moderator => new = PERMISSION_LEVELS.admin
           /\ \A u \in Users \ {last'.target} :
                  check_permission_in(group_data', u) = check_permission(u)]_vars

\* an owner has promoted a moderator, who is now admin
C12_Witness ==
    /\ last.cmd = "promote"
    /\ last.result = "accepted"
    /\ check_permission(last.user) = PERMISSION_LEVELS.owner
    /\ check_permission(last.target) = PERMISSION_LEVELS.admin
    /\ started = 1

C14_ThreePromotes ==
    [][Invoked("promote", 1, 2)
       /\ check_permission(1) = PERMISSION_LEVELS.admin =>
          LET b == check_permission(2)
              new == check_permission_in(group_data', 2)
          IN /\ 2 \notin DOMAIN group_data.permissions =>
                   Mutates(last'.result) /\ new = PERMISSION_LEVELS.moderator
             /\ b = PERMISSION_LEVELS.moderator =>
                   Mutates(last'.result) /\ new = PERMISSION_LEVELS.admin
             /\ b = PERMISSION_LEVELS.admin =>
                   /\ last'.result = "cannotActOnEqualOrHigher"
                   /\ group_data' = group_data]_vars

\* the third command was a promote that was refused, and M, whom only two
\* promotes by A can have made admin, is admin
C14_Witness ==
    /\ started = 3
    /\ last.cmd = "promote"
    /\ last.result = "cannotActOnEqualOrHigher"
    /\ group_data.permissions = (1 :> PERMISSION_LEVELS.admin) @@ (2 :> PERMISSION_LEVELS.admin)

\* C15: promote, demote, ban, mute, unmute or warn invoked by a member on
\* that same member is rejected and changes neither the member's rank nor
\* the member's warning count.
C15_SelfTargetRejected ==
    [][\A cmd \in Commands, u \in Users :
          Invoked(cmd, u, u) =>
              /\ ~Mutates(last'.result)
              /\ check_permission_in(group_data', u) = check_permission(u)
              /\ get(group_data'.user_warnings, u, 0) = WarningCount(u)]_vars

\* C16: a moderation command refused for insufficient rank or for a target
\* of equal or higher rank is a no-op: the group record (ranks, warning
\* counts, warnings_issued, settings) is the same before and after, and no
\* part of the handler is left to run.
C16_RejectedIsNoOp ==
    [][Decides(Commands)
       /\ last'.result \in {"insufficientRank", "cannotActOnEqualOrHigher"} =>
            /\ group_data' = group_data
            /\ task' = task]_vars

\* a demote of a member of equal or higher rank has been refused
C16_Witness ==
    /\ last.cmd = "demote"
    /\ last.result = "cannotActOnEqualOrHigher"
    /\ \E u \in Users : check_permission(u) >= PERMISSION_LEVELS.admin

\* the record a read of group c returns in the current state of the store
Stored(d, f, c) == GetGroup(d, f, c).ret

\* C17: when the write of the data file behind a group update fails, the
\* update reports failure and the record in memory is rolled back to its
\* value before the call, so a later read never returns the mutation.
C17_RollbackOnFailure ==
    [][(/\ started' = started + 1
        /\ outcome'.op = "set_permission"
        /\ outcome'.saved \in {"openFailed", "writeFailed"}) =>
            /\ ~outcome'.ok
            /\ Stored(data', file', outcome'.chat) = Stored(data, file, outcome'.chat)]_vars

\* C18: whatever the data file holds when it is loaded (no file, content
\* that does not parse, or JSON of the wrong shape such as an object without
\* the key 'groups'), get_group_data never raises, and returns the empty
\* record for a group of which nothing is stored.
C18_LoadNeverFatal ==
    [][(started' = started + 1 /\ outcome'.op = "get_group_data") =>
            /\ outcome'.ret # Raised
            /\ ((file.kind # "json" \/ "groups" \notin file.doc.keys)
                /\ ("groups" \notin data.keys \/ outcome'.chat \notin DOMAIN data.groups))
               => outcome'.ret = EmptyRecord]_vars

\* the toggle has been set to v by settings_command
SetTo(key, v) ==
    key \in DOMAIN group_data.settings /\ group_data.settings[key] = v

\* this step is a message handler running on a text message
Screens == started' = started + 1 /\ screened'.at = started'

\* C19: with moderation set to off, neither handler takes a content-screen
\* action on a text message, whatever its content: no notice is posted and
\* the screen does not delete the message (a deletion can only be the one
\* message_handlers.py performs for a banned sender).
C19_DisabledAllows ==
    [][Screens /\ SetTo("moderation_enabled", FALSE) =>
          /\ ~screened'.notice
          /\ screened'.by # "screen"
          /\ screened'.deleted =>
                 check_permission(screened'.sender) = PERMISSION_LEVELS.banned]_vars

\* with moderation off, a text matching the pattern was left standing
C19_Witness ==
    /\ screened.handler = "message_handlers"
    /\ SetTo("moderation_enabled", FALSE)
    /\ ~check_message_content(screened.text)
    /\ ~screened.deleted /\ ~screened.notice

\* C20: with moderation on and a text matching the pattern, the message is
\* deleted and a notice posted when auto-delete is on, and a notice posted
\* with the message left standing when auto-delete is off; a text that does
\* not match is left alone (platform calls succeeding, sender not banned).
C20_ScreenAction ==
    [][\A u \in Users, text \in Texts :
          /\ \/ handle_text_message(u, text, TRUE, TRUE)
             \/ handle_text_message_new(u, text, TRUE, TRUE)
          /\ check_permission(u) # PERMISSION_LEVELS.banned
          /\ SetTo("moderation_enabled", TRUE)
          => /\ ~check_message_content(text) /\ SetTo("auto_delete_enabled", TRUE) =>
                    screened'.deleted /\ screened'.notice
             /\ ~check_message_content(text) /\ SetTo("auto_delete_enabled", FALSE) =>
                    ~screened'.deleted /\ screened'.notice
             /\ check_message_content(text) =>
                    ~screened'.deleted /\ ~screened'.notice]_vars

\* C21: a text message going through the content screen, whatever is done
\* with it, leaves every member's warning count, warnings_issued and every
\* member's rank as they were; a step that changes a warning count or
\* warnings_issued is an accepted warn_command.
C21_ScreenKeepsLedger ==
    [][/\ Screens =>
            /\ group_data'.user_warnings = group_data.user_warnings
            /\ group_data'.warnings_issued = group_data.warnings_issued
            /\ group_data'.permissions = group_data.permissions
       /\ (\/ group_data'.user_warnings # group_data.user_warnings
           \/ group_data'.warnings_issued # group_data.warnings_issued) =>
            /\ Decides({"warn"})
            /\ last'.result = "accepted"]_vars

\* a text matching the pattern was flagged by the screen after a /settings
\* command turned moderation on, and the ledger is as it was at the start
C21_Witness ==
    /\ screened.handler = "message_handlers_new"
    /\ screened.by = "screen"
    /\ screened.notice
    /\ group_data.user_warnings = [x \in {2} |-> 2]
    /\ group_data.warnings_issued = 2
    /\ group_data.permissions = [x \in {1} |-> PERMISSION_LEVELS.admin]

\* C22: once settings_command has set welcome, moderation or autodelete to
\* on or off, every later reader finds that value until the toggle is set
\* again: the display of /settings shows it, and both text handlers act on
\* it (a matching text draws a notice exactly when moderation is on, and is
\* deleted exactly when autodelete is on as well).
C22_SetThenRead ==
    /\ [](\A setting \in {"welcome", "moderation", "autodelete"}, v \in BOOLEAN :
             SetTo(SettingKey(setting), v) =>
                 SettingsShown(group_data.settings)[setting] = v)
    /\ [][\A u \in Users, text \in Texts, v \in BOOLEAN :
            (/\ \/ handle_text_message(u, text, TRUE, TRUE)
                \/ handle_text_message_new(u, text, TRUE, TRUE)
             /\ check_permission(u) # PERMISSION_LEVELS.banned
             /\ ~check_message_content(text))
            => /\ SetTo("moderation_enabled", v) => screened'.notice = v
               /\ SetTo("moderation_enabled", TRUE) /\ SetTo("auto_delete_enabled", v) =>
                      screened'.deleted = v]_vars

\* no toggle of the setting is stored in the group's record
Unset(setting) ==
    /\ SettingKey(setting) \notin DOMAIN group_data.settings
    /\ setting = "autodelete" => "auto_delete" \notin DOMAIN group_data.settings

\* C23: in a group where a toggle was never set, every reader uses the
\* default of DEFAULT_CONFIG: the text handlers screen the text (moderation
\* defaults to on) and leave a flagged message standing (auto-delete
\* defaults to off), and /settings displays these values.
C23_ConfiguredDefaults ==
    /\ [](last.cmd = "settings" /\ last.result = "shown" =>
          LET shown == SettingsShown(group_data.settings) IN
           /\ Unset("welcome") => shown.welcome = DEFAULT_CONFIG.welcome_enabled
           /\ Unset("moderation") => shown.moderation = DEFAULT_CONFIG.moderation_enabled
           /\ Unset("autodelete") => shown.autodelete = DEFAULT_CONFIG.auto_delete)
    /\ [][\A u \in Users, text \in Texts :
            (/\ \/ handle_text_message(u, text, TRUE, TRUE)
                \/ handle_text_message_new(u, text, TRUE, TRUE)
             /\ check_permission(u) # PERMISSION_LEVELS.banned
             /\ ~check_message_content(text))
            => /\ Unset("moderation") =>
                      screened'.notice = DEFAULT_CONFIG.moderation_enabled
               /\ screened'.by = "screen" /\ Unset("autodelete") =>
                      screened'.deleted = DEFAULT_CONFIG.auto_delete]_vars

\* no rank is recorded for the member
Unranked(gd, u) == u \notin DOMAIN gd.permissions

\* C24: a member whose rank no operation has set is read as regular (0) by
\* check_permission, stays without a recorded rank through every step that
\* does not write a rank for that member, and is compared as regular when a
\* command targets the member: the command is accepted exactly when the
\* actor's rank a satisfies a >= minimum and a > 0.
C24_UnknownIsRegular ==
    /\ [](\A u \in Users : Unranked(group_data, u) => check_permission(u) = 0)
    /\ [][/\ \A g \in Users :
              Unranked(group_data, g) /\ ~Unranked(group_data', g) =>
                  \/ Decides(Commands \ {"warn"}) /\ Mutates(last'.result)
                       /\ last'.target = g
                  \/ \E t \in Tasks : /\ task[t].pc = "restrict"
                                       /\ task'[t].pc = "notify"
                                       /\ task[t].target = g
          /\ Decides({"promote", "demote", "ban", "mute", "warn"}) =>
              (LET minimum == ClaimedMinimum(last'.cmd) IN
               IF Mutates(last'.result)
               THEN (Unranked(group_data, last'.target) =>
                        authorize(check_permission(last'.user), 0, minimum))
               ELSE \A u, g \in Users :
                        (Unranked(group_data, g)
                         /\ Decision(last'.cmd, u, g) = last'.result)
                            => ~authorize(check_permission(u), 0, minimum))]_vars

\* a warn on a member without a recorded rank has been accepted, and the
\* member still has none
C24_Witness ==
    /\ last.cmd = "warn"
    /\ last.result = "accepted"
    /\ Unranked(group_data, last.target)
    /\ check_permission(last.target) = PERMISSION_LEVELS.regular
    /\ check_permission(last.user) = PERMISSION_LEVELS.moderator

\* the record holds the rank r for member u
StoredRank(gd, u, r) == u \in DOMAIN gd.permissions /\ gd.permissions[u] = r

\* C25: an accepted ban leaves the target's stored rank at banned, whatever
\* the rank was before and whether ban_chat_member returned or raised.
C25_BanStoresBanned ==
    [][Decides({"ban"}) /\ Mutates(last'.result) =>
          /\ StoredRank(group_data', last'.target, -100)
          /\ \A u \in Users \ {last'.target} :
                 check_permission_in(group_data', u) = check_permission(u)]_vars

\* ban_chat_member raised after an accepted ban, and the target is banned
C25_Witness ==
    /\ last.cmd = "ban"
    /\ last.result = "platformFailed"
    /\ check_permission(last.target) = PERMISSION_LEVELS.banned
    /\ check_permission(last.user) >= PERMISSION_LEVELS.admin

\* C26: an accepted mute leaves the target's stored rank at restricted and
\* an accepted unmute leaves it at regular, whatever the rank was before.
C26_MuteUnmuteLevel ==
    [][/\ Decides({"mute"}) /\ Mutates(last'.result) =>
              StoredRank(group_data', last'.target, -10)
       /\ Decides({"unmute"}) /\ Mutates(last'.result) =>
              StoredRank(group_data', last'.target, 0)]_vars

\* the first command was an unmute by a moderator of a member who was
\* moderator or higher, and that member is now regular
C26_Witness ==
    /\ started = 1
    /\ last.cmd = "unmute"
    /\ last.result = "accepted"
    /\ last.user = 2 /\ last.target = 1
    /\ check_permission(2) = PERMISSION_LEVELS.moderator
    /\ 1 \in DOMAIN group_data.permissions
    /\ check_permission(1) = PERMISSION_LEVELS.regular

\* C27: the first warning recorded for a member without a stored record
\* succeeds and yields the count 1, the member's rank being regular, in the
\* database helpers as in the JSON group store.
C27_LazyMember ==
    [][\A u \in Users, c \in Chats :
          increment_user_warning(u, c, TRUE) /\ ~IsMember(u, c) =>
              /\ outcome'.ret = 1
              /\ <<u, c>> \in DOMAIN members'
              /\ members'[<<u, c>>] = [permission_level |-> 0, warnings |-> 1]]_vars

\* C28: a step a thread takes in a handler run for group c, the reload it
\* triggers included, leaves the record held for every other group as it
\* was.
C28_OneGroupTouched ==
    [][\A h \in Threads :
          loader'[h] # loader[h] /\ loader[h].pc # "idle" /\ "groups" \in data.keys =>
              \A g \in DOMAIN data.groups \ {loader[h].chat} :
                  /\ "groups" \in data'.keys
                  /\ g \in DOMAIN data'.groups
                  /\ data'.groups[g] = data.groups[g]]_vars

C30_DemoteNeverRaises ==
    [][Decides({"demote"}) /\ Mutates(last'.result) =>
          check_permission_in(group_data', last'.target)
              <= check_permission(last'.target)]_vars

Owners(gd) == {u \in Users : check_permission_in(gd, u) = 1000}

\* C32: no step writes the rank owner (1000) or trusted (10): a rank that a
\* step stores or changes is one of banned, restricted, regular, moderator
\* and admin, and no member becomes an owner.
C32_NeverOwnerNorTrusted ==
    [][/\ \A u \in Users :
              \/ /\ Unranked(group_data', u)
                 /\ Unranked(group_data, u)
              \/ /\ ~Unranked(group_data, u)
                 /\ StoredRank(group_data', u, group_data.permissions[u])
              \/ \E r \in {-100, -10, 0, 50, 100} :
                     StoredRank(group_data', u, r)
       /\ Owners(group_data') \subseteq Owners(group_data)]_vars

\* an owner has promoted a member twice, and the member is admin, not owner
C32_Witness ==
    /\ started = 2
    /\ last.cmd = "promote"
    /\ last.result = "accepted"
    /\ check_permission(last.user) = PERMISSION_LEVELS.owner
    /\ check_permission(last.target) = PERMISSION_LEVELS.admin
    /\ Owners(group_data) = {last.user}

\* C33: a read of the store never discards a group update held in memory:
\* across a call of get_group_data or get_user_data every group record that
\* an update has filled is still in memory with the same content, also when
\* the save_data behind that update failed.
C33_ReadKeepsUpdate ==
    [][(/\ started' = started + 1
        /\ outcome'.op \in {"get_group_data", "get_user_data"}
        /\ "groups" \in data.keys) =>
            \A c \in DOMAIN data.groups :
                data.groups[c] # EmptyRecord =>
                    /\ "groups" \in data'.keys
                    /\ c \in DOMAIN data'.groups
                    /\ data'.groups[c] = data.groups[c]]_vars

\* what was done with a text message: it was removed, it was left standing
\* with a notice posted, or it was let through
ActionOf(m) ==
    IF m.deleted THEN "Remove" ELSE IF m.notice THEN "Flag" ELSE "Allow"

\* C34: on every group record, with each toggle set or unset, and on every
\* text, handle_text_message of message_handlers.py and of
\* message_handlers_new.py do the same with the message (Allow, Flag or
\* Remove), the platform calls succeeding and the sender not being banned.
C34_HandlersAgree ==
    [][\A u \in Users, text \in Texts :
          (/\ handle_text_message(u, text, TRUE, TRUE)
           /\ check_permission(u) # PERMISSION_LEVELS.banned) =>
              \E a \in {"Allow", "Flag", "Remove"} :
                  /\ ActionOf(screened') = a
                  /\ ENABLED (/\ handle_text_message_new(u, text, TRUE, TRUE)
                              /\ ActionOf(screened') = a)]_vars

\* C35: a group text message of a banned member is deleted for the
\* sender's rank and does not reach the content screen (no notice), a
\* message of a restricted member is not deleted for rank, and in both
\* cases message_count has been incremented by 1 (platform calls
\* succeeding).
C35_BannedSenderRemoved ==
    [][\A u \in Users, text \in Texts :
          (\/ handle_text_message(u, text, TRUE, TRUE)
           \/ handle_text_message_new(u, text, TRUE, TRUE)) =>
              /\ check_permission(u) = PERMISSION_LEVELS.banned =>
                     /\ screened'.deleted
                     /\ screened'.by = "rank"
                     /\ ~screened'.notice
                     /\ group_data'.message_count = group_data.message_count + 1
              /\ check_permission(u) = PERMISSION_LEVELS.restricted =>
                     /\ screened'.by # "rank"
                     /\ group_data'.message_count = group_data.message_count + 1]_vars

\* C36: once settings_command has set welcome to off, and until it sets it
\* to on again, no welcome message is sent for the members of any join.
C36_WelcomeOffSilent ==
    [][(/\ started' = started + 1
        /\ welcomed'.at = started'
        /\ SetTo("welcome_enabled", FALSE)) => welcomed'.sent = 0]_vars

\* the key under which the setting named in /settings is kept
NamedKey(w) ==
    CASE w \in {"welcome"} -> "welcome_enabled"
      [] w \in {"moderation", "Moderation"} -> "moderation_enabled"
      [] w \in {"autodelete"} -> "auto_delete_enabled"
      [] OTHER -> "none"

\* the toggle k has the same state, unset, on or off, in st1 and st2
SameToggle(st1, st2, k) ==
    /\ k \in DOMAIN st1 <=> k \in DOMAIN st2
    /\ k \in DOMAIN st1 => st1[k] = st2[k]

\* C37: settings_command changes at most the one toggle it names: a call by
\* a member below admin, with a number of arguments other than 2, with a
\* value other than on/off or with an unknown setting leaves the whole
\* group record as it was, and an accepted call sets the key of the named
\* toggle and changes nothing else in the record.
C37_SettingsFrame ==
    [][\A u \in Users, args \in SettingArgs :
          settings_command(u, args) =>
              IF /\ check_permission(u) >= 100
                 /\ Len(args) = 2
                 /\ args[2] \in {"on", "off", "OFF"}
                 /\ NamedKey(args[1]) # "none"
              THEN /\ [group_data' EXCEPT !.settings = group_data.settings] = group_data
                   /\ NamedKey(args[1]) \in DOMAIN group_data'.settings
                   /\ group_data'.settings[NamedKey(args[1])] = (args[2] = "on")
                   /\ \A k \in (DOMAIN group_data.settings
                                   \cup DOMAIN group_data'.settings)
                                \ {NamedKey(args[1])} :
                          SameToggle(group_data.settings, group_data'.settings, k)
              ELSE group_data' = group_data]_vars

\* with moderation already set, an accepted call has set welcome to off and
\* left moderation as it was
C37_Witness ==
    /\ started = 2
    /\ last.cmd = "settings"
    /\ last.result = "accepted"
    /\ DOMAIN group_data.settings = {"welcome_enabled", "moderation_enabled"}
    /\ ~group_data.settings["welcome_enabled"]
    /\ group_data.settings["moderation_enabled"]

\* C38: a /rules call with text by a member below moderator leaves the
\* stored rules as they were, a call with text by a moderator or higher
\* stores that text, and a call without text, by a member of any rank, is
\* answered with the stored rules and changes nothing: a view returns the
\* text of the last accepted set.
C38_RulesSetNeedsModerator ==
    [][\A u \in Users, args \in RulesArgs :
          (rules_command_async(u, args) \/ rules_command_new(u, args)) =>
              IF args = NoArgs
              THEN /\ last'.result = "shown"
                   /\ viewed'.at = started'
                   /\ viewed'.rules = group_data.rules
                   /\ group_data' = group_data
              ELSE IF check_permission(u) >= 50
              THEN group_data'.rules = args
              ELSE group_data'.rules = group_data.rules]_vars

\* C39: after an accepted warn, get_user_profile reports for every member
\* the warning count warn_command has recorded and the rank check_permission
\* returns.
C39_ProfileAgrees ==
    (last.cmd = "warn" /\ last.result = "accepted") =>
        \A u \in Users :
            /\ get_user_profile(group_data, u).warnings = WarningCount(u)
            /\ get_user_profile(group_data, u).permission_level = check_permission(u)

====
